---- MODULE Spec2Model ----
(***************************************************************************)
(* A model of go-compileutil's reader package (Reader, Pos) as found in    *)
(* src/indentedwriter/indentedWriter.go (the reader part, lines 126-533)   *)
(* and src/reader/pos.go.                                                  *)
(*                                                                         *)
(* One Reader is constructed by OnString, OnBytes or OnFile and then       *)
(* driven by a client.  Every exported method is one action; the helpers   *)
(* it calls (expandTo, updateLines, fileName, line, ...) are operators     *)
(* that return the reader and the source as the call leaves them.  A Go    *)
(* panic is modelled as the end of the program: pc = "aborted".            *)
(***************************************************************************)
EXTENDS Integers, Sequences, FiniteSets, TLC

VARIABLES
    pc,      \* "new" (no Reader yet), "open" (a Reader was returned),
             \* "failed" (the constructor returned an error), "aborted" (panic)
    rdr,     \* the fields of the reader struct
    src,     \* the byte source: the file behind rdr.source (or the bytes given)
    closed,  \* history: Close() has been called on the Reader
    added,   \* history: the bytes AddContent appended, each with the offset
             \* it was appended at
    ret,     \* the result of the last call
    conc,    \* a producer and a consumer goroutine on the Reader: where each
             \* is in its call, what it holds in locals, and the lock mu
    dg,      \* the diagnostic groups (package diag) made so far
    it,      \* package intern: the symbol table and its byte buffers
    iw,      \* package indentedwriter: the writers on one output
    fl       \* a call on the Reader followed read by read: where it is in
             \* expandTo, what it asked for and the reads it has issued

vars == <<pc, rdr, src, closed, added, ret, conc, dg, it, iw, fl>>

\* the Reader and what a single client sees of it
readerVars == <<pc, rdr, src, closed, added, ret>>

\* what lives beside a Reader driven by a single client
beside == <<conc, dg, it, iw, fl>>

\* the packages that hold no Reader
packages == <<dg, it, iw>>

----------------------------------------------------------------------------
(* Bounds of the model *)

\* longest input (file content, string or byte slice) given to a constructor
MaxLen == 2
\* most AddContent calls on one Reader, each appending one byte
MaxAdd == 1
\* most diagnostic groups made by New and With
MaxGroups == 3
\* most diagnostics added to all groups together
MaxDiags == 2
\* the symbols Intern makes (the single-byte symbols are not made)
MaxSyms == 7
\* most IndentedWriters on one output, the deepest step of Indent, most
\* Write/Print/Println calls, and the most bytes a failing output takes
MaxWriters == 2
MaxIndent == 2
MaxWrites == 2
MaxRoom == 2

(* Program constants *)

lineFeed == 10
blockChunkSize == 1024
ttyChunkSize == 1

\* the byte values of the model: line feed and 'a'
Bytes == {lineFeed, 97}

SeqsUpTo(S, n) == UNION {[1..k -> S] : k \in 0..n}

Inputs == SeqsUpTo(Bytes, MaxLen)

\* the example inputs "abc" and "abc\ndef"
ExampleInputs == {<<97, 98, 99>>, <<97, 98, 99, lineFeed, 100, 101, 102>>}

\* offsets a client passes to ByteAt, SetOffset and the rendering methods
Offsets == 0..MaxLen

Min(a, b) == IF a < b THEN a ELSE b

----------------------------------------------------------------------------
(* The byte source.  A read of n bytes returns at most n bytes and an error *)
(* value: "nil", "EOF" (io.EOF) or another error.  How many bytes a read    *)
(* returns is the source's choice: `how` is that choice for one read.       *)

\* The choices a source has for one read.  cap = -1: the read fails with an
\* I/O error and no byte; cap = -2: the read returns one byte and an I/O
\* error with it; cap = 1: a short read, of one byte; cap = 0: the read
\* returns all that is asked for.  With eof, the read that returns the last
\* byte of the source reports io.EOF together with it.
ShortCaps == {-2, -1, 1}

FullRead(eof) == [cap |-> 0, eof |-> eof]

\* The source's choices for the successive reads of one call: up to two reads
\* that fail or fall short, after which the source returns all it is asked
\* for.  Nothing follows a failed read.
Scripts ==
    {[caps |-> c, eof |-> e] :
        c \in {c \in SeqsUpTo(ShortCaps, 2) : Len(c) = 2 => c[1] >= 0},
        e \in BOOLEAN}

NoScript == [caps |-> <<>>, eof |-> FALSE]

\* fs.File.Read(buf) with len(buf) = n, on a source at position s.pos
Read(s, n, how) ==
    LET rem == Len(s.data) - s.pos
        k   == IF how.cap = 0 THEN Min(n, rem) ELSE Min(Min(n, how.cap), rem)
    IN  IF s.closed THEN [n |-> 0, err |-> "ErrClosed", s |-> s]
        ELSE IF how.cap = -1 THEN [n |-> 0, err |-> "EIO", s |-> s]
        ELSE IF how.cap = -2
        THEN [n |-> Min(Min(n, 1), rem), err |-> "EIO",
              s |-> [s EXCEPT !.pos = @ + Min(Min(n, 1), rem)]]
        ELSE IF rem = 0 THEN [n |-> 0, err |-> "EOF", s |-> s]
        ELSE [n   |-> k,
              err |-> IF k = rem /\ how.eof THEN "EOF" ELSE "nil",
              s   |-> [s EXCEPT !.pos = @ + k]]

----------------------------------------------------------------------------
(* The reader struct and its unexported helpers.  Offsets are Go's: the     *)
(* byte at offset o is content[o + 1] here.                                 *)

\* for i := updatedTo; i < len(content); i++ { if content[i] == '\n' { append i+1 } }
RECURSIVE ScanLines(_, _, _)
ScanLines(content, i, lines) ==
    IF i >= Len(content) THEN lines
    ELSE ScanLines(content, i + 1,
                   IF content[i + 1] = lineFeed THEN Append(lines, i + 1) ELSE lines)

\* mutant: scans the content again from its start
updateLines_Rescan(r) ==
    [r EXCEPT !.lines = ScanLines(r.content, 0, r.lines),
              !.updatedTo = Len(r.content)]

updateLines(r) ==
    [r EXCEPT !.lines = ScanLines(r.content, r.updatedTo, r.lines),
              !.updatedTo = Len(r.content)]

\* nBytes &= -chunk, for chunk a power of two: clear the bits below chunk
AndNeg(n, chunk) == (n \div chunk) * chunk

\* how many bytes expandTo asks the source for, to reach offset o
RequestSize(r, o) ==
    LET need == (o - Len(r.content)) + 1
    IN  IF r.ioChunkSize > 1
        THEN AndNeg(need + (r.ioChunkSize - 1), r.ioChunkSize)
        ELSE need

\* what the source does on the next read of a call, and what is left of the
\* script after it
NextRead(script) ==
    IF script.caps = <<>> THEN FullRead(script.eof)
    ELSE [cap |-> Head(script.caps), eof |-> script.eof]

RestOf(script) ==
    IF script.caps = <<>> THEN script ELSE [script EXCEPT !.caps = Tail(@)]

RECURSIVE ExpandLoop(_, _, _, _, _)

\* mutant: a read that returns fewer bytes than asked for is taken for the end
\* of the input
ExpandLoop_ShortIsEOF(r, s, o, script, io) ==
    LET AfterRead(rd, asked) ==
            IF rd.err # "nil" /\ rd.err # "EOF"
            THEN [r |-> [r EXCEPT !.err = rd.err], s |-> rd.s, io |-> io + 1,
                  panic |-> TRUE]
            ELSE ExpandLoop(
                   [r EXCEPT !.err = IF rd.err = "nil" /\ rd.n < asked
                                     THEN "EOF" ELSE rd.err,
                             !.content = @ \o SubSeq(s.data, s.pos + 1, s.pos + rd.n)],
                   rd.s, o, RestOf(script), io + 1)
        Ask(asked) == AfterRead(Read(s, asked, NextRead(script)), asked)
    IN  IF o >= Len(r.content) /\ r.err = "nil"
        THEN Ask(RequestSize(r, o))
        ELSE [r |-> r, s |-> s, io |-> io, panic |-> FALSE]

\* mutant: the first read of a call is issued whether or not an error is
\* latched
ExpandLoop_IgnoresLatch(r, s, o, script, io) ==
    LET AfterRead(rd) ==
            IF rd.err # "nil" /\ rd.err # "EOF"
            THEN [r |-> [r EXCEPT !.err = rd.err], s |-> rd.s, io |-> io + 1,
                  panic |-> TRUE]
            ELSE ExpandLoop(
                   [r EXCEPT !.err = rd.err,
                             !.content = @ \o SubSeq(s.data, s.pos + 1, s.pos + rd.n)],
                   rd.s, o, RestOf(script), io + 1)
    IN  IF o >= Len(r.content) /\ (r.err = "nil" \/ io = 0)
        THEN AfterRead(Read(s, RequestSize(r, o), NextRead(script)))
        ELSE [r |-> r, s |-> s, io |-> io, panic |-> FALSE]

\* the loop of expandTo: read until content covers o or an error is latched;
\* a read error other than io.EOF panics before the bytes are appended.
\* io counts the reads issued.
ExpandLoop(r, s, o, script, io) ==
    LET AfterRead(rd) ==
            IF rd.err # "nil" /\ rd.err # "EOF"
            THEN [r |-> [r EXCEPT !.err = rd.err], s |-> rd.s, io |-> io + 1,
                  panic |-> TRUE]
            ELSE ExpandLoop(
                   [r EXCEPT !.err = rd.err,
                             !.content = @ \o SubSeq(s.data, s.pos + 1, s.pos + rd.n)],
                   rd.s, o, RestOf(script), io + 1)
    IN  IF o >= Len(r.content) /\ r.err = "nil"
        THEN AfterRead(Read(s, RequestSize(r, o), NextRead(script)))
        ELSE [r |-> r, s |-> s, io |-> io, panic |-> FALSE]

\* the end of expandTo, after its loop l: index the new bytes, then nil when
\* o is covered and the latched error otherwise
Expanded(l, r2, o) ==
    IF l.panic
    THEN [r |-> l.r, s |-> l.s, err |-> l.r.err, io |-> l.io, panic |-> TRUE]
    ELSE [r |-> r2, s |-> l.s,
          err |-> IF o < Len(r2.content) THEN "nil" ELSE r2.err,
          io |-> l.io, panic |-> FALSE]

\* mutant: a Reader with no source answers with another error than io.EOF
expandTo_WrongError(r, s, o, script) ==
    LET AfterLoop(l) == Expanded(l, updateLines(l.r), o)
    IN  IF o < Len(r.content)
        THEN [r |-> r, s |-> s, err |-> "nil", io |-> 0, panic |-> FALSE]
        ELSE IF r.ioChunkSize = 0 \/ ~r.source
        THEN [r |-> r, s |-> s, err |-> "ErrUnexpectedEOF", io |-> 0,
              panic |-> FALSE]
        ELSE AfterLoop(ExpandLoop(r, s, o, script, 0))

expandTo(r, s, o, script) ==
    LET AfterLoop(l) == Expanded(l, updateLines(l.r), o)
    IN  IF o < Len(r.content)
        THEN [r |-> r, s |-> s, err |-> "nil", io |-> 0, panic |-> FALSE]
        ELSE IF r.ioChunkSize = 0 \/ ~r.source
        THEN [r |-> r, s |-> s, err |-> "EOF", io |-> 0, panic |-> FALSE]
        ELSE AfterLoop(ExpandLoop(r, s, o, script, 0))

\* ByteAt after its expandTo e
ByteOf(e, o) ==
    IF e.panic \/ e.err # "nil"
    THEN [r |-> e.r, s |-> e.s, b |-> 0, err |-> e.err, io |-> e.io,
          panic |-> e.panic]
    ELSE IF o >= Len(e.r.content)
    THEN [r |-> e.r, s |-> e.s, b |-> 0, err |-> "EOF", io |-> e.io,
          panic |-> FALSE]
    ELSE [r |-> e.r, s |-> e.s, b |-> e.r.content[o + 1], err |-> "nil",
          io |-> e.io, panic |-> FALSE]

ByteAt(r, s, o, script) == ByteOf(expandTo(r, s, o, script), o)

\* SetOffset past the buffered bytes, after its ByteAt b
Filled(b, o) ==
    IF b.panic \/ b.err # "nil"
    THEN [r |-> b.r, s |-> b.s, err |-> b.err, io |-> b.io, panic |-> b.panic]
    ELSE [r |-> [b.r EXCEPT !.offset = o], s |-> b.s, err |-> "nil",
          io |-> b.io, panic |-> FALSE]

\* mutant: the cursor moves whether or not the offset could be filled
SetOffset_Unchecked(r, s, o, script) ==
    LET Moved(b) ==
            [r |-> [b.r EXCEPT !.offset = o], s |-> b.s, err |-> b.err,
             io |-> b.io, panic |-> b.panic]
    IN  IF o >= Len(r.content)
        THEN Moved(ByteAt(r, s, o, script))
        ELSE [r |-> [r EXCEPT !.offset = o], s |-> s, err |-> "nil", io |-> 0,
              panic |-> FALSE]

\* mutant: the cursor moves only when the offset had to be filled
SetOffset_FillOnly(r, s, o, script) ==
    IF o >= Len(r.content)
    THEN Filled(ByteAt(r, s, o, script), o)
    ELSE [r |-> r, s |-> s, err |-> "nil", io |-> 0, panic |-> FALSE]

SetOffset(r, s, o, script) ==
    IF o >= Len(r.content)
    THEN Filled(ByteAt(r, s, o, script), o)
    ELSE [r |-> [r EXCEPT !.offset = o], s |-> s, err |-> "nil", io |-> 0,
          panic |-> FALSE]

\* mutant: Peek() consumes the byte it returns
Peek_Consumes(r, s, script) ==
    LET Advanced(b) == IF ~b.panic /\ b.err = "nil"
                       THEN [b EXCEPT !.r.offset = @ + 1]
                       ELSE b
    IN  Advanced(ByteAt(r, s, r.offset, script))

Peek(r, s, script) == ByteAt(r, s, r.offset, script)

\* mutant: the cursor moves on whether or not a byte was returned
Next_AlwaysAdvances(r, s, script) ==
    LET Advanced(b) == [b EXCEPT !.r.offset = @ + 1]
    IN  Advanced(ByteAt(r, s, r.offset, script))

Next(r, s, script) ==
    LET Advanced(b) == IF ~b.panic /\ b.err = "nil"
                       THEN [b EXCEPT !.r.offset = @ + 1]
                       ELSE b
    IN  Advanced(ByteAt(r, s, r.offset, script))

----------------------------------------------------------------------------
(* Line and column lookup and the rendering of positions *)

\* sort.Search(n, f): binary search for the least i in [0, n) with
\* lines[i] > o (Go index i is lines[i + 1] here); n when there is none
RECURSIVE SearchFrom(_, _, _, _)
SearchFrom(lines, o, i, j) ==
    IF i < j
    THEN IF ~(lines[((i + j) \div 2) + 1] > o)
         THEN SearchFrom(lines, o, ((i + j) \div 2) + 1, j)
         ELSE SearchFrom(lines, o, i, (i + j) \div 2)
    ELSE i

Search(lines, o) == SearchFrom(lines, o, 0, Len(lines))

fileName(r, s, o, adjusted, script) ==
    LET AfterExpand(e) ==
            [r |-> e.r, s |-> e.s, nm |-> r.name, io |-> e.io,
             panic |-> e.panic \/ e.err # "nil"]
    IN  IF adjusted
        THEN AfterExpand(expandTo(r, s, o - 1, script))
        ELSE [r |-> r, s |-> s, nm |-> r.name, io |-> 0, panic |-> FALSE]

line(r, s, o, adjusted, script) ==
    LET AfterExpand(e) ==
            IF e.panic \/ e.err # "nil"
            THEN [r |-> e.r, s |-> e.s, k |-> 0, io |-> e.io, panic |-> TRUE]
            ELSE [r |-> e.r, s |-> e.s, k |-> Search(e.r.lines, o), io |-> e.io,
                  panic |-> FALSE]
    IN  AfterExpand(expandTo(r, s, o - 1, script))

\* r.lines[l] with l < 0 or l >= len(r.lines) is a run-time panic.  By the
\* time line() is called o - 1 is buffered, so its expandTo reads nothing.
NameLineAndColumn(r, s, o, adjusted, script) ==
    LET Located(f, ln, l) ==
            IF ln.panic \/ l < 0 \/ l >= Len(ln.r.lines)
            THEN [r |-> ln.r, s |-> ln.s, nm |-> f.nm, line |-> 0,
                  col |-> 0, io |-> f.io + ln.io, panic |-> TRUE]
            ELSE [r |-> ln.r, s |-> ln.s, nm |-> f.nm, line |-> 1 + l,
                  col |-> 1 + (o - ln.r.lines[l + 1]),
                  io |-> f.io + ln.io, panic |-> FALSE]
        WithLine(f, ln) == Located(f, ln, ln.k - 1)
        Named(f) ==
            IF f.panic
            THEN [r |-> f.r, s |-> f.s, nm |-> f.nm, line |-> 0, col |-> 0,
                  io |-> f.io, panic |-> TRUE]
            ELSE IF o > Len(f.r.content)
            THEN [r |-> f.r, s |-> f.s, nm |-> f.nm, line |-> 0, col |-> 0,
                  io |-> f.io, panic |-> FALSE]
            ELSE WithLine(f, line(f.r, f.s, o, adjusted, NoScript))
    IN  Named(fileName(r, s, o, adjusted, script))

Digit(d) ==
    CASE d = 0 -> "0" [] d = 1 -> "1" [] d = 2 -> "2" [] d = 3 -> "3"
      [] d = 4 -> "4" [] d = 5 -> "5" [] d = 6 -> "6" [] d = 7 -> "7"
      [] d = 8 -> "8" [] d = 9 -> "9"

\* fmt's %d of a non-negative int
RECURSIVE Itoa(_)
Itoa(n) == IF n < 10 THEN Digit(n) ELSE Itoa(n \div 10) \o Digit(n % 10)

\* the " (%d)" or " (%d > %d)" that follows the name and the line
WithOffset(s1, o, buffered) ==
    IF o < 0 THEN s1
    ELSE IF o <= buffered THEN s1 \o " (" \o Itoa(o) \o ")"
    ELSE s1 \o " (" \o Itoa(o) \o " > " \o Itoa(buffered) \o ")"

\* mutant: the line and the column are printed whether or not they are valid
FormatPosition_AlwaysLine(nm, ln, col, o, buffered) ==
    WithOffset(nm \o ":" \o Itoa(ln) \o ":" \o Itoa(col), o, buffered)

\* "%s:%d:%d" when line > 0; then " (%d)" or " (%d > %d)" unless o < 0
FormatPosition(nm, ln, col, o, buffered) ==
    WithOffset(IF ln > 0 THEN nm \o ":" \o Itoa(ln) \o ":" \o Itoa(col) ELSE nm,
               o, buffered)

PositionString(r, s, o, adjusted, script) ==
    LET Rendered(n) ==
            [r |-> n.r, s |-> n.s, io |-> n.io, panic |-> n.panic,
             line |-> n.line, col |-> n.col,
             str |-> IF n.panic THEN ""
                     ELSE FormatPosition(n.nm, n.line, n.col, o, Len(n.r.content))]
    IN  Rendered(NameLineAndColumn(r, s, o, adjusted, script))

\* BasicPos.String of package position: offset -1 means no offset
BasicPosString(nm, ln, col, offset) ==
    LET WithOff(s1) == IF offset >= 0 THEN s1 \o " (" \o Itoa(offset) \o ")" ELSE s1
    IN  WithOff(IF ln > 0 THEN nm \o ":" \o Itoa(ln) \o ":" \o Itoa(col) ELSE nm)

----------------------------------------------------------------------------
(* Construction *)

NoReader ==
    [name |-> "", content |-> <<>>, lines |-> <<>>, offset |-> 0,
     updatedTo |-> 0, source |-> FALSE, ioChunkSize |-> 0,
     isCharDevice |-> FALSE, closeSource |-> FALSE, err |-> "nil"]

\* data: the bytes behind the source (for OnString and OnBytes, the bytes
\* given, which the Reader copies and never reads again); pos: how many of
\* them have been read
NoSource == [data |-> <<>>, pos |-> 0, closed |-> FALSE]

\* the result of a call, as the client sees it; off0 is the cursor before
\* the call and io the number of reads the call issued; eoi is what IsAtEOI()
\* returned; again tells a Peek() that follows a Peek() at once
NoResult ==
    [op |-> "", o |-> -1, adjusted |-> FALSE, b |-> 0, err |-> "nil",
     off0 |-> 0, io |-> 0, str |-> "", line |-> 0, col |-> 0, kind |-> "",
     eoi |-> FALSE, again |-> FALSE]

\* what os.Open can find under a name
FileKinds == {"regular", "chardev", "blockdev", "irregular", "missing"}

onNamedBytes(name, bytes) ==
    updateLines([name |-> name, content |-> bytes, lines |-> <<0>>,
                 offset |-> 0, updatedTo |-> 0, source |-> FALSE,
                 ioChunkSize |-> 0, isCharDevice |-> FALSE,
                 closeSource |-> FALSE, err |-> "nil"])

\* OnFile as written: os.Open, then the struct literal, and return; nothing
\* looks at the file's mode and nothing is read
OnFileReader(name) ==
    [name |-> name, content |-> <<>>, lines |-> <<0>>, offset |-> 0,
     updatedTo |-> 0, source |-> TRUE, ioChunkSize |-> blockChunkSize,
     isCharDevice |-> FALSE, closeSource |-> TRUE, err |-> "nil"]

\* both goroutines outside any call, mu free
NoConc ==
    [ppc |-> "idle", pb |-> 0, psnap |-> <<>>,
     cpc |-> "idle", co |-> 0, cbytes |-> <<>>, csnap |-> <<>>,
     mu |-> FALSE]

\* no diagnostic group yet, no diagnostic added
\* from is history: for a group made by With, its two operands
\* strOf and str are the result of the last call when it was String(): the
\* group it was called on and what it returned
NoDiags ==
    [groups |-> <<>>, from |-> <<>>, adds |-> 0, exited |-> FALSE,
     strOf |-> 0, str |-> <<>>]

\* package intern as it is initialised: next is 256, both maps are empty and
\* byteBuf is an empty slice of capacity bufSize.  bufs are the byte arrays
\* dup has made so far (the first one at initialisation), cur is the one
\* byteBuf is a slice of, and a slice of an array is [buf, lo, len].
\* seen is history: every Intern call so far, its argument and its result.
NoIntern ==
    [next |-> 256, symbols |-> <<>>, index |-> <<>>,
     bufs |-> << <<>> >>, cur |-> 1,
     seen |-> {}, lt |-> <<>>]

\* no IndentedWriter yet.  writers are the indents of the writers made so
\* far, all on one baseWriter (out, AtBOL); out is what the underlying
\* io.Writer has taken and room the bytes it will still take (-1: any).
\* log is history: the indent and the bytes of every Write call so far;
\* n and err are the result of the last Write.
NoWriters ==
    [writers |-> <<>>, AtBOL |-> FALSE, out |-> <<>>, room |-> -1,
     log |-> <<>>, n |-> 0, err |-> "nil", failed |-> FALSE]

\* no call is followed read by read.  pc is "idle", "loop" (the call is at
\* the test of expandTo's loop), "returned" or "panicked"; looped tells a
\* returned call that it came to the loop.  op and o are the call and the
\* offset it asks for, len0 is len(r.content) when it was made; got counts
\* its reads that returned a byte or an error and idle tells that a read of
\* it returned neither.
NoFill ==
    [pc |-> "idle", op |-> "", o |-> 0, len0 |-> 0, got |-> 0,
     idle |-> FALSE, looped |-> FALSE]

Init ==
    /\ pc = "new"
    /\ fl = NoFill
    /\ it = NoIntern
    /\ iw = NoWriters
    /\ rdr = NoReader
    /\ src = NoSource
    /\ closed = FALSE
    /\ added = <<>>
    /\ ret = NoResult
    /\ conc = NoConc
    /\ dg = NoDiags

Constructed(r, bytes, op, kind) ==
    /\ pc' = "open"
    /\ rdr' = r
    /\ src' = [NoSource EXCEPT !.data = bytes]
    /\ ret' = [NoResult EXCEPT !.op = op, !.kind = kind]
    /\ UNCHANGED <<closed, added, beside>>

OnString ==
    /\ pc = "new"
    /\ \E bytes \in Inputs \cup ExampleInputs :
          Constructed(onNamedBytes("<string>", bytes), bytes, "OnString", "")

OnBytes ==
    /\ pc = "new"
    /\ \E bytes \in Inputs :
          Constructed(onNamedBytes("<[]byte>", bytes), bytes, "OnBytes", "")

OnFile ==
    /\ pc = "new"
    /\ \E bytes \in Inputs, kind \in FileKinds :
          IF kind = "missing"
          THEN /\ pc' = "failed"
               /\ ret' = [NoResult EXCEPT !.op = "OnFile", !.kind = kind,
                                          !.err = "ErrNotExist"]
               /\ UNCHANGED <<rdr, src, closed, added, beside>>
          ELSE Constructed(OnFileReader("file"), bytes, "OnFile", kind)

----------------------------------------------------------------------------
(* The calls of a client on the Reader *)

\* the scripts that can make a difference to a call that needs offset o
ScriptsFor(r, o) ==
    IF o >= Len(r.content) /\ r.source /\ r.ioChunkSize # 0 /\ r.err = "nil"
    THEN Scripts ELSE {NoScript}

\* the common part of a call that returns a byte
ByteCall(op, o, res) ==
    /\ rdr' = res.r
    /\ src' = res.s
    /\ pc' = IF res.panic THEN "aborted" ELSE pc
    /\ ret' = [NoResult EXCEPT !.op = op, !.o = o, !.b = res.b, !.err = res.err,
                               !.off0 = rdr.offset, !.io = res.io,
                               !.again = (op = "Peek" /\ ret.op = "Peek")]
    /\ UNCHANGED <<closed, added, beside>>

DoByteAt ==
    /\ pc = "open"
    /\ \E o \in Offsets : \E script \in ScriptsFor(rdr, o) :
          ByteCall("ByteAt", o, ByteAt(rdr, src, o, script))

DoPeek ==
    /\ pc = "open"
    /\ \E script \in ScriptsFor(rdr, rdr.offset) :
          ByteCall("Peek", rdr.offset, Peek(rdr, src, script))

DoNext ==
    /\ pc = "open"
    /\ \E script \in ScriptsFor(rdr, rdr.offset) :
          ByteCall("Next", rdr.offset, Next(rdr, src, script))

\* the common part of a call that returns an error only
ErrCall(op, o, res) ==
    /\ rdr' = res.r
    /\ src' = res.s
    /\ pc' = IF res.panic THEN "aborted" ELSE pc
    /\ ret' = [NoResult EXCEPT !.op = op, !.o = o, !.err = res.err,
                               !.io = res.io]
    /\ UNCHANGED <<closed, added, beside>>

DoSetOffset ==
    /\ pc = "open"
    /\ \E o \in Offsets : \E script \in ScriptsFor(rdr, o) :
          ErrCall("SetOffset", o, SetOffset(rdr, src, o, script))

\* IsAtEOI(): r.err != nil, on a copy of the struct
IsAtEOI(r) == r.err # "nil"

DoIsAtEOI ==
    /\ pc = "open"
    /\ ret' = [NoResult EXCEPT !.op = "IsAtEOI", !.eoi = IsAtEOI(rdr),
                               !.off0 = rdr.offset]
    /\ UNCHANGED <<pc, rdr, src, closed, added, beside>>

\* mutant: the new bytes are appended and not indexed
AddContent_NoIndex(r, bytes) == [r EXCEPT !.content = @ \o bytes]

\* mutant: new bytes clear a latched error
AddContent_ClearsEOF(r, bytes) ==
    updateLines([r EXCEPT !.content = @ \o bytes, !.err = "nil"])

\* mutant: the new bytes take the place of the content
AddContent_Replaces(r, bytes) == updateLines([r EXCEPT !.content = bytes])

\* AddContent(bytes): append and index, under the package lock
AddContent(r, bytes) == updateLines([r EXCEPT !.content = @ \o bytes])

\* The model appends to a live Reader only: after Close the line table would
\* grow with every append and the model would have no bound.
DoAddContent ==
    /\ pc = "open"
    /\ ~closed
    /\ Len(added) < MaxAdd
    /\ \E b \in Bytes :
          /\ rdr' = AddContent(rdr, <<b>>)
          /\ added' = Append(added, [at |-> Len(rdr.content), b |-> b])
          /\ ret' = [NoResult EXCEPT !.op = "AddContent", !.off0 = rdr.offset]
          /\ UNCHANGED <<pc, src, closed, beside>>

\* Close(): close the source if the Reader opened it, drop the content
Close(r, s) ==
    [r |-> [r EXCEPT !.content = <<>>],
     s |-> IF r.closeSource THEN [s EXCEPT !.closed = TRUE] ELSE s]

DoClose ==
    /\ pc = "open"
    /\ rdr' = Close(rdr, src).r
    /\ src' = Close(rdr, src).s
    /\ closed' = TRUE
    /\ ret' = [NoResult EXCEPT !.op = "Close", !.off0 = rdr.offset]
    /\ UNCHANGED <<pc, added, beside>>

\* the common part of a rendering call; str is the string it returns
RenderCall(op, o, adjusted, res, str) ==
    /\ rdr' = res.r
    /\ src' = res.s
    /\ pc' = IF res.panic THEN "aborted" ELSE pc
    /\ ret' = [NoResult EXCEPT !.op = op, !.o = o, !.adjusted = adjusted,
                               !.str = str, !.line = res.line, !.col = res.col,
                               !.off0 = rdr.offset, !.io = res.io]
    /\ UNCHANGED <<closed, added, beside>>

NameCall(op, o, adjusted, n) == RenderCall(op, o, adjusted, n, n.nm)

StringCall(op, o, adjusted, p) == RenderCall(op, o, adjusted, p, p.str)

\* Reader.NameLineAndColumn(o, adjusted), which Filename, Line and Column wrap
DoNameLineAndColumn ==
    /\ pc = "open"
    /\ \E o \in Offsets, adjusted \in BOOLEAN :
       \E script \in ScriptsFor(rdr, o - 1) :
          NameCall("NameLineAndColumn", o, adjusted,
                   NameLineAndColumn(rdr, src, o, adjusted, script))

DoPositionString ==
    /\ pc = "open"
    /\ \E o \in Offsets, adjusted \in BOOLEAN :
       \E script \in ScriptsFor(rdr, o - 1) :
          StringCall("PositionString", o, adjusted,
                     PositionString(rdr, src, o, adjusted, script))

----------------------------------------------------------------------------
(* Pos, the position value of a Reader (src/reader/pos.go) *)

\* r.Position(): the off field of a Pos at the cursor
Position(r) == r.offset

\* p.Advance(n): the off field of a Pos n bytes further
Advance(off, n) == off + n

\* p.String(): PositionString(p.off, true)
PosString(r, s, off, script) == PositionString(r, s, off, TRUE, script)

\* p.Line(), p.Column(), p.Filename(): NameLineAndColumn(p.off, true)
PosLineColumn(r, s, off, script) == NameLineAndColumn(r, s, off, TRUE, script)

\* r.Position().Advance(k).String(), with k = 0 for r.Position().String()
DoPosString ==
    /\ pc = "open"
    /\ \E k \in 0..1 :
       LET off == Advance(Position(rdr), k)
       IN  \E script \in ScriptsFor(rdr, off - 1) :
              StringCall("Pos.String", off, TRUE,
                         PosString(rdr, src, off, script))

\* r.Position().Advance(k).Line() and .Column()
DoPosLineColumn ==
    /\ pc = "open"
    /\ \E k \in 0..1 :
       LET off == Advance(Position(rdr), k)
       IN  \E script \in ScriptsFor(rdr, off - 1) :
              NameCall("Pos.Line", off, TRUE,
                       PosLineColumn(rdr, src, off, script))

\* p.Raw().Filename(), .Line() and .Column(): RawPos.Line() returns
\* input.Column(p.off, false), as RawPos.Column() does
RawPos(r, s, off) ==
    LET AsWritten(n) == [n EXCEPT !.line = n.col]
    IN  AsWritten(NameLineAndColumn(r, s, off, FALSE, NoScript))

\* r.Position().Advance(k).Raw().Line() and .Column()
DoRawPos ==
    /\ pc = "open"
    /\ \E k \in 0..1 :
          NameCall("RawPos", Advance(Position(rdr), k), FALSE,
                   RawPos(rdr, src, Advance(Position(rdr), k)))

\* position.Pos / position.OffsetPos and String() on it: no Reader involved
DoBasicPos ==
    /\ pc = "new"
    /\ \E ln \in 0..2, col \in 1..2, off \in -1..2 :
          ret' = [NoResult EXCEPT !.op = "BasicPos", !.o = off, !.line = ln,
                                  !.col = col,
                                  !.str = BasicPosString("file", ln, col, off)]
    /\ UNCHANGED <<pc, rdr, src, closed, added, beside>>

----------------------------------------------------------------------------
(* A producer goroutine that calls AddContent and a consumer goroutine that  *)
(* calls ByteAt on the same Reader.  Each access of r.content is a step of   *)
(* its own: only AddContent takes mu, so nothing orders the accesses of the  *)
(* two goroutines.                                                           *)

\* AddContent: mu.Lock()
ProdLock ==
    /\ pc = "open"
    /\ conc.ppc = "idle" /\ ~conc.mu
    /\ Len(added) < MaxAdd
    /\ \E b \in Bytes :
          conc' = [conc EXCEPT !.ppc = "locked", !.mu = TRUE, !.pb = b]
    /\ UNCHANGED <<readerVars, packages, fl>>

\* AddContent: append(r.content, bytes...) reads r.content
ProdLoad ==
    /\ conc.ppc = "locked"
    /\ conc' = [conc EXCEPT !.ppc = "loaded", !.psnap = rdr.content]
    /\ UNCHANGED <<readerVars, packages, fl>>

\* AddContent: r.content = the slice that append returned
ProdStore ==
    /\ conc.ppc = "loaded"
    /\ rdr' = [rdr EXCEPT !.content = conc.psnap \o <<conc.pb>>]
    /\ added' = Append(added, [at |-> Len(conc.psnap), b |-> conc.pb])
    /\ conc' = [conc EXCEPT !.ppc = "stored", !.psnap = <<>>]
    /\ UNCHANGED <<pc, src, closed, ret, packages, fl>>

\* AddContent: r.updateLines(), then the deferred mu.Unlock()
ProdIndex ==
    /\ conc.ppc = "stored"
    /\ rdr' = updateLines(rdr)
    /\ conc' = [conc EXCEPT !.ppc = "idle", !.mu = FALSE, !.pb = 0]
    /\ UNCHANGED <<pc, src, closed, added, ret, packages, fl>>

\* ByteAt(o): a call that expandTo answers without a read returns at once;
\* another enters the loop of expandTo
ConsCall ==
    /\ pc = "open"
    /\ conc.cpc = "idle"
    /\ \E o \in Offsets :
          IF ScriptsFor(rdr, o) = {NoScript}
          THEN ByteCall("ByteAt", o, ByteAt(rdr, src, o, NoScript))
          ELSE /\ conc' = [conc EXCEPT !.cpc = "fill", !.co = o]
               /\ UNCHANGED <<readerVars, packages, fl>>

\* the reads the source may answer with here: all that is asked for, with or
\* without io.EOF on the last byte, or one byte
ConcReads == {FullRead(TRUE), FullRead(FALSE), [cap |-> 1, eof |-> FALSE]}

\* expandTo: the loop test, and r.source.Read into newBytes when it holds
ConsRead ==
    /\ conc.cpc = "fill"
    /\ IF conc.co >= Len(rdr.content) /\ rdr.err = "nil"
       THEN \E how \in ConcReads :
              LET Got(rd) ==
                    /\ rdr' = [rdr EXCEPT !.err = rd.err]
                    /\ src' = rd.s
                    /\ conc' = [conc EXCEPT
                                  !.cpc = "read",
                                  !.cbytes = SubSeq(src.data, src.pos + 1,
                                                    src.pos + rd.n)]
              IN  Got(Read(src, RequestSize(rdr, conc.co), how))
       ELSE /\ conc' = [conc EXCEPT !.cpc = "index"]
            /\ UNCHANGED <<rdr, src>>
    /\ UNCHANGED <<pc, closed, added, ret, packages, fl>>

\* expandTo: append(r.content, newBytes[:nBytes]...) reads r.content
ConsLoad ==
    /\ conc.cpc = "read"
    /\ conc' = [conc EXCEPT !.cpc = "loaded", !.csnap = rdr.content]
    /\ UNCHANGED <<readerVars, packages, fl>>

\* expandTo: r.content = the slice that append returned; back to the loop test
ConsStore ==
    /\ conc.cpc = "loaded"
    /\ rdr' = [rdr EXCEPT !.content = conc.csnap \o conc.cbytes]
    /\ conc' = [conc EXCEPT !.cpc = "fill", !.csnap = <<>>, !.cbytes = <<>>]
    /\ UNCHANGED <<pc, src, closed, added, ret, packages, fl>>

\* expandTo: r.updateLines() and its return; then the rest of ByteAt
ConsIndex ==
    /\ conc.cpc = "index"
    /\ LET Return(r, o) ==
             /\ rdr' = r
             /\ ret' = [NoResult EXCEPT
                          !.op = "ByteAt", !.o = o, !.off0 = r.offset,
                          !.b = IF o < Len(r.content) THEN r.content[o + 1] ELSE 0,
                          !.err = IF o < Len(r.content) THEN "nil"
                                  ELSE IF r.err # "nil" THEN r.err ELSE "EOF"]
       IN  Return(updateLines(rdr), conc.co)
    /\ conc' = [conc EXCEPT !.cpc = "idle", !.co = 0]
    /\ UNCHANGED <<pc, src, closed, added, packages, fl>>

----------------------------------------------------------------------------
(* Package diag: groups of diagnostics.  A Diags is a pointer: the groups    *)
(* made so far are dg.groups, and a group is named by its index.             *)

\* DiagKind, by iota
Fatal == 0
Error == 1
Warning == 2
Info == 3

\* A Go string is the sequence of its bytes.
\* fmt's %d of a non-negative int, as bytes
RECURSIVE ItoaBytes(_)
ItoaBytes(n) ==
    IF n < 10 THEN <<48 + n>> ELSE ItoaBytes(n \div 10) \o <<48 + (n % 10)>>

\* BasicPos.String of package position, as bytes: "%s:%d:%d" when line > 0,
\* then " (%d)" when offset >= 0
BasicPosBytes(nm, ln, col, offset) ==
    LET WithOff(s1) ==
            IF offset >= 0 THEN s1 \o <<32, 40>> \o ItoaBytes(offset) \o <<41>>
            ELSE s1
    IN  WithOff(IF ln > 0
                THEN nm \o <<58>> \o ItoaBytes(ln) \o <<58>> \o ItoaBytes(col)
                ELSE nm)

\* position.Pos(nm, line, col): no offset
Pos(nm, ln, col) == [filename |-> nm, line |-> ln, column |-> col, offset |-> -1]

\* the positions diagnostics are added at: file "x", lines 2 and 10, column 1;
\* and the messages they carry: "m"
DiagWheres == {Pos(<<120>>, ln, 1) : ln \in {2, 10}}
DiagPositions ==
    {BasicPosBytes(w.filename, w.line, w.column, w.offset) : w \in DiagWheres}
Messages == {<<109>>}

\* Go's s1 < s2 on strings: bytewise lexicographic, a proper prefix first
StringLess(s1, s2) ==
    \E i \in 1..(Min(Len(s1), Len(s2)) + 1) :
        /\ \A k \in 1..(i - 1) : s1[k] = s2[k]
        /\ IF i <= Len(s1) /\ i <= Len(s2) THEN s1[i] < s2[i]
           ELSE Len(s1) < Len(s2)

\* "FatalErrorWarningInfo" and where each name starts in it
DiagKind_name ==
    <<70, 97, 116, 97, 108, 69, 114, 114, 111, 114,
      87, 97, 114, 110, 105, 110, 103, 73, 110, 102, 111>>
DiagKind_index == <<0, 5, 10, 17, 21>>

\* DiagKind.String of a kind in Fatal..Info
DiagKindString(i) ==
    SubSeq(DiagKind_name, DiagKind_index[i + 1] + 1, DiagKind_index[i + 2])

\* Diag.String: "%s: %s %s" of Pos, Kind and Message
DiagString(d) ==
    d.Pos \o <<58, 32>> \o DiagKindString(d.Kind) \o <<32>> \o d.Message

\* the less function of defaultSort: by Pos, then Kind, then Message
diagLess(d1, d2) ==
    IF StringLess(d2.Pos, d1.Pos) THEN FALSE
    ELSE IF StringLess(d1.Pos, d2.Pos) THEN TRUE
    ELSE IF d1.Kind > d2.Kind THEN FALSE
    ELSE IF d1.Kind < d2.Kind THEN TRUE
    ELSE StringLess(d1.Message, d2.Message)

\* one diagnostic put into a sorted slice before the first one it is less than
RECURSIVE SortInto(_, _)
SortInto(sorted, d) ==
    IF sorted = <<>> THEN <<d>>
    ELSE IF diagLess(d, Head(sorted)) THEN <<d>> \o sorted
    ELSE <<Head(sorted)>> \o SortInto(Tail(sorted), d)

\* defaultSort: sort.Slice by diagLess.  diagLess is a strict total order up
\* to diagnostics of equal Pos, Kind and Message, so the sorted slice is one.
RECURSIVE defaultSort(_)
defaultSort(d) ==
    IF d = <<>> THEN <<>>
    ELSE SortInto(defaultSort(SubSeq(d, 1, Len(d) - 1)), d[Len(d)])

\* strings.Join(append(s, ""), "\n") of the strings of the diagnostics
RECURSIVE JoinLines(_)
JoinLines(d) ==
    IF d = <<>> THEN <<>>
    ELSE DiagString(Head(d)) \o <<lineFeed>> \o JoinLines(Tail(d))

\* Diags.String: the group after the call (d.diags is sorted in place, the
\* Sort of every group being defaultSort) and the string
DiagsString(g) ==
    LET Sorted1(s) == [g |-> [g EXCEPT !.diags = s], str |-> JoinLines(s)]
    IN  Sorted1(defaultSort(g.diags))

\* New(): an empty group with no error
New == [HasError |-> FALSE, diags |-> <<>>]

\* c.Add(where, kind, msg), where being where.String(): the group c after the
\* call.  With kind Fatal the diagnostic is printed and the program exits.
Add(c, where, kind, msg) ==
    [c EXCEPT !.diags = Append(@, [Pos |-> where, Kind |-> kind, Message |-> msg]),
              !.HasError = IF kind = Error THEN TRUE ELSE @]

AddFatal(c, where, msg) == Add(c, where, Fatal, msg)
AddError(c, where, msg) == Add(c, where, Error, msg)
AddWarn(c, where, msg) == Add(c, where, Warning, msg)
AddInfo(c, where, msg) == Add(c, where, Info, msg)

\* mutant: the fresh group has the receiver's errors only
With_ReceiverOnly(c, d) ==
    [HasError |-> c.HasError, diags |-> c.diags \o d.diags]

\* c.With(d): a fresh group
With(c, d) ==
    [HasError |-> c.HasError \/ d.HasError, diags |-> c.diags \o d.diags]

\* d.AsError(): the group itself as an error, or nil
AsError(d) == IF d.HasError THEN "diags" ELSE "nil"

DiagNew ==
    /\ pc = "new" /\ ~dg.exited
    /\ Len(dg.groups) < MaxGroups
    /\ dg' = [dg EXCEPT !.groups = Append(@, New), !.from = Append(@, <<>>),
                        !.strOf = 0, !.str = <<>>]
    /\ UNCHANGED <<readerVars, conc, it, iw, fl>>

\* c.AddFatal, c.AddError, c.AddWarn or c.AddInfo on a group made before
DiagAdd ==
    /\ pc = "new" /\ ~dg.exited
    /\ dg.adds < MaxDiags
    /\ \E c \in 1..Len(dg.groups), where \in DiagPositions, msg \in Messages :
       \E added1 \in {AddFatal(dg.groups[c], where, msg),
                      AddError(dg.groups[c], where, msg),
                      AddWarn(dg.groups[c], where, msg),
                      AddInfo(dg.groups[c], where, msg)} :
          dg' = [dg EXCEPT !.groups[c] = added1,
                           !.adds = @ + 1,
                           !.strOf = 0, !.str = <<>>,
                           !.exited = (added1.diags[Len(added1.diags)].Kind = Fatal)]
    /\ UNCHANGED <<readerVars, conc, it, iw, fl>>

DiagWith ==
    /\ pc = "new" /\ ~dg.exited
    /\ Len(dg.groups) < MaxGroups
    /\ \E c \in 1..Len(dg.groups), d \in 1..Len(dg.groups) :
          dg' = [dg EXCEPT !.groups = Append(@, With(dg.groups[c], dg.groups[d])),
                           !.from = Append(@, <<c, d>>),
                           !.strOf = 0, !.str = <<>>]
    /\ UNCHANGED <<readerVars, conc, it, iw, fl>>

\* c.String() on a group made before
DiagsStringCall(c, res) ==
    dg' = [dg EXCEPT !.groups[c] = res.g, !.strOf = c, !.str = res.str]

DoDiagsString ==
    /\ pc = "new" /\ ~dg.exited
    /\ \E c \in 1..Len(dg.groups) : DiagsStringCall(c, DiagsString(dg.groups[c]))
    /\ UNCHANGED <<readerVars, conc, it, iw, fl>>

----------------------------------------------------------------------------
(* Package intern: byte slices to symbols.  Intern, Symbol.Bytes and        *)
(* Symbol.LessThan hold mu for all they do with next, symbols, index and    *)
(* byteBuf, so a call is one step whatever goroutine makes it.              *)

bufSize == 4096
maxToBuf == 1024

\* the table of the single-byte symbols: unicodeISO[i] is the byte i
unicodeISO == [i \in 1..256 |-> i - 1]

\* the bytes a slice denotes
SliceBytes(t, key) == SubSeq(t.bufs[key.buf], key.lo + 1, key.lo + key.len)

\* mutant: a full byteBuf is emptied and filled again, in the same array
dup_ReusesBuffer(t, b) ==
    IF Len(b) > maxToBuf
    THEN [t |-> [t EXCEPT !.bufs = Append(@, b)],
          key |-> [buf |-> Len(t.bufs) + 1, lo |-> 0, len |-> Len(b)]]
    ELSE IF Len(b) > bufSize - Len(t.bufs[t.cur])
    THEN [t |-> [t EXCEPT !.bufs[t.cur] = b \o SubSeq(@, Len(b) + 1, Len(@))],
          key |-> [buf |-> t.cur, lo |-> 0, len |-> Len(b)]]
    ELSE [t |-> [t EXCEPT !.bufs[t.cur] = @ \o b],
          key |-> [buf |-> t.cur, lo |-> Len(t.bufs[t.cur]), len |-> Len(b)]]

\* dup(b): a private copy of b, in an array of its own when b is longer than
\* maxToBuf, else appended to byteBuf, which is a fresh array when b does not
\* fit in what is left of it
dup(t, b) ==
    IF Len(b) > maxToBuf
    THEN [t |-> [t EXCEPT !.bufs = Append(@, b)],
          key |-> [buf |-> Len(t.bufs) + 1, lo |-> 0, len |-> Len(b)]]
    ELSE IF Len(b) > bufSize - Len(t.bufs[t.cur])
    THEN [t |-> [t EXCEPT !.bufs = Append(@, b), !.cur = Len(t.bufs) + 1],
          key |-> [buf |-> Len(t.bufs) + 1, lo |-> 0, len |-> Len(b)]]
    ELSE [t |-> [t EXCEPT !.bufs[t.cur] = @ \o b],
          key |-> [buf |-> t.cur, lo |-> Len(t.bufs[t.cur]), len |-> Len(b)]]

\* Intern(b): the table after the call and the symbol
Intern(t, b) ==
    IF Len(b) = 1 /\ b[1] <= 255 THEN [t |-> t, sym |-> b[1]]
    ELSE IF b \in DOMAIN t.symbols THEN [t |-> t, sym |-> t.symbols[b]]
    ELSE LET Stored(d) ==
                 [t |-> [d.t EXCEPT
                            !.symbols = (SliceBytes(d.t, d.key) :> t.next) @@ @,
                            !.index = (t.next :> d.key) @@ @,
                            !.next = @ + 1],
                  sym |-> t.next]
         IN  Stored(dup(t, b))

\* s.Bytes()
SymbolBytes(t, s) ==
    IF s < 256 THEN SubSeq(unicodeISO, s + 1, s + 1)
    ELSE IF s \in DOMAIN t.index THEN SliceBytes(t, t.index[s])
    ELSE <<>>

\* index[int(s)]: nil when s is not a key of index
Indexed(t, s) == IF s \in DOMAIN t.index THEN SliceBytes(t, t.index[s]) ELSE <<>>

\* the loop of LessThan from ndx on
RECURSIVE LessLoop(_, _, _, _)
LessLoop(v1, v2, ndx, ln) ==
    IF ndx < ln
    THEN IF v1[ndx + 1] < v2[ndx + 1] THEN TRUE
         ELSE IF v1[ndx + 1] > v2[ndx + 1] THEN FALSE
         ELSE LessLoop(v1, v2, ndx + 1, ln)
    ELSE Len(v1) < Len(v2)

\* s.LessThan(s2)
LessThan(t, s, s2) ==
    LessLoop(Indexed(t, s), Indexed(t, s2), 0,
             Min(Len(Indexed(t, s)), Len(Indexed(t, s2))))

\* the names a client interns: short ones, and long ones that fill byteBuf
\* (four of them leave two bytes of the first array, the fifth is longer than
\* maxToBuf)
Names == SeqsUpTo(Bytes, 2)
LongNames ==
    <<[i \in 1..(maxToBuf - 1) |-> 97], [i \in 1..maxToBuf |-> 97],
      [i \in 1..(maxToBuf - 1) |-> lineFeed], [i \in 1..maxToBuf |-> lineFeed],
      [i \in 1..(maxToBuf + 1) |-> 97]>>

\* the first long name not interned yet, for a client that interns its long
\* names in turn and before any short one
NextLong(t) ==
    {LongNames[k] : k \in {j \in 1..Len(LongNames) :
                              DOMAIN t.symbols = {LongNames[h] : h \in 1..(j - 1)}}}

InternCall(b, res) ==
    it' = [res.t EXCEPT !.seen = @ \cup {[b |-> b, sym |-> res.sym]},
                        !.lt = <<>>]

\* Intern(b) or InternString(s) of a short name
DoIntern ==
    /\ pc = "new"
    /\ \E b \in Names :
          /\ \/ Len(b) = 1
             \/ b \in DOMAIN it.symbols
             \/ it.next - 256 < MaxSyms
          /\ InternCall(b, Intern(it, b))
    /\ UNCHANGED <<readerVars, conc, dg, iw, fl>>

\* Intern(b) of a long name
DoInternLong ==
    /\ pc = "new"
    /\ it.next - 256 < MaxSyms
    /\ \E b \in NextLong(it) : InternCall(b, Intern(it, b))
    /\ UNCHANGED <<readerVars, conc, dg, iw, fl>>

\* s.LessThan(s2) of two symbols Intern has returned
DoLessThan ==
    /\ pc = "new"
    /\ \E p \in it.seen, q \in it.seen :
          it' = [it EXCEPT !.lt = <<p.sym, q.sym, LessThan(it, p.sym, q.sym)>>]
    /\ UNCHANGED <<readerVars, conc, dg, iw, fl>>

----------------------------------------------------------------------------
(* Specifications *)

\* A client that reads a live Reader: the byte-level calls and AddContent
Step ==
    \/ OnString
    \/ OnBytes
    \/ OnFile
    \/ DoByteAt
    \/ DoPeek
    \/ DoNext
    \/ DoSetOffset
    \/ DoAddContent
    \/ DoIsAtEOI

Spec == Init /\ [][Step]_vars

\* A client that moves the cursor, renders positions and closes the Reader
StepRender ==
    \/ OnString
    \/ OnBytes
    \/ OnFile
    \/ DoByteAt
    \/ DoNext
    \/ DoSetOffset
    \/ DoClose
    \/ DoNameLineAndColumn
    \/ DoPositionString
    \/ DoPosString
    \/ DoPosLineColumn
    \/ DoRawPos
    \/ DoBasicPos

SpecRender == Init /\ [][StepRender]_vars

\* A producer and a consumer goroutine on one Reader
StepConc ==
    \/ OnString
    \/ OnBytes
    \/ OnFile
    \/ ProdLock
    \/ ProdLoad
    \/ ProdStore
    \/ ProdIndex
    \/ ConsCall
    \/ ConsRead
    \/ ConsLoad
    \/ ConsStore
    \/ ConsIndex

SpecConc == Init /\ [][StepConc]_vars

\* A client of package diag
StepDiag ==
    \/ DiagNew
    \/ DiagAdd
    \/ DiagWith

SpecDiag == Init /\ [][StepDiag]_vars

\* A client of package diag that also prints its groups
StepDiagString ==
    \/ DiagNew
    \/ DiagAdd
    \/ DiagWith
    \/ DoDiagsString

SpecDiagString == Init /\ [][StepDiagString]_vars

----------------------------------------------------------------------------
(* Package indentedwriter: IndentedWriters on one underlying io.Writer.     *)
(* A writer is named by its index in iw.writers.                            *)

\* out.Write(p) of the underlying writer: all of p, or what it has room for
\* and an error
OutWrite(w, p) ==
    IF w.room < 0 \/ Len(p) <= w.room
    THEN [w |-> [w EXCEPT !.out = @ \o p,
                          !.room = IF @ < 0 THEN @ ELSE @ - Len(p)],
          n |-> Len(p), err |-> "nil"]
    ELSE [w |-> [w EXCEPT !.out = @ \o SubSeq(p, 1, w.room), !.room = 0,
                          !.failed = TRUE],
          n |-> w.room, err |-> "error"]

\* bytes.SplitAfter(b, "\n"): b cut after every line feed
RECURSIVE SplitAfter(_)
SplitAfter(b) ==
    IF \E i \in 1..Len(b) : b[i] = lineFeed
    THEN LET Cut(i) == <<SubSeq(b, 1, i)>> \o SplitAfter(SubSeq(b, i + 1, Len(b)))
         IN  Cut(CHOOSE i \in 1..Len(b) :
                     b[i] = lineFeed /\ \A k \in 1..(i - 1) : b[k] # lineFeed)
    ELSE <<b>>

\* the threads of Write: SplitAfter without an empty last part
Threads(parts) ==
    IF parts[Len(parts)] = <<>> THEN SubSeq(parts, 1, Len(parts) - 1) ELSE parts

\* bytes.Repeat(" ", n)
Repeat(n) == [i \in 1..n |-> 32]

\* the loop of Write over the threads: the prefix when AtBOL (what its write
\* returns is dropped), then the thread; the loop ends at the first thread
\* whose write fails.  written is the sum of the n's.
RECURSIVE WriteLoop(_, _, _, _)
WriteLoop(w, indent, threads, written) ==
    IF threads = <<>> THEN [w |-> w, written |-> written]
    ELSE LET bt == Head(threads)
             Wrote(o) ==
                 IF o.err # "nil" THEN [w |-> o.w, written |-> written + o.n]
                 ELSE WriteLoop([o.w EXCEPT !.AtBOL = (Len(bt) > 0
                                                       /\ bt[Len(bt)] = lineFeed)],
                                indent, Tail(threads), written + o.n)
             Prefixed(w1) == Wrote(OutWrite(w1, bt))
         IN  Prefixed(IF w.AtBOL THEN OutWrite(w, Repeat(indent)).w ELSE w)

\* iw.Write(b) of a writer of the given indent: the output after the call,
\* the count and the error returned.  The err that is returned is the named
\* result, which the loop never assigns: its `n, err :=` declares another.
Write(w, indent, b) ==
    LET Done(l) == [w |-> l.w, n |-> l.written, err |-> "nil"]
    IN  Done(WriteLoop(w, indent, Threads(SplitAfter(b)), 0))

\* what a client writes
Payloads == SeqsUpTo(Bytes, MaxLen)
Rooms == -1..MaxRoom

\* IndentedWriterOn(out): the first writer, indent 0
DoIndentedWriterOn ==
    /\ pc = "new"
    /\ iw.writers = <<>>
    /\ \E room \in Rooms :
          iw' = [iw EXCEPT !.writers = <<0>>, !.AtBOL = FALSE, !.room = room]
    /\ UNCHANGED <<readerVars, conc, dg, it, fl>>

\* w.Indent(n): a fresh writer on the same baseWriter
DoIndent ==
    /\ pc = "new"
    /\ Len(iw.writers) < MaxWriters
    /\ \E w \in 1..Len(iw.writers), n \in 1..MaxIndent :
          iw' = [iw EXCEPT !.writers = Append(@, iw.writers[w] + n)]
    /\ UNCHANGED <<readerVars, conc, dg, it, fl>>

\* w.NoIndent(): a fresh writer of indent 0 on the same baseWriter
DoNoIndent ==
    /\ pc = "new"
    /\ Len(iw.writers) < MaxWriters
    /\ \E w \in 1..Len(iw.writers) :
          iw' = [iw EXCEPT !.writers = Append(@, 0)]
    /\ UNCHANGED <<readerVars, conc, dg, it, fl>>

WriteCall(indent, b, res) ==
    iw' = [res.w EXCEPT !.n = res.n, !.err = res.err,
                        !.log = Append(@, [indent |-> indent, b |-> b])]

\* w.Write(b)
DoWrite ==
    /\ pc = "new"
    /\ Len(iw.log) < MaxWrites
    /\ \E w \in 1..Len(iw.writers), b \in Payloads :
          WriteCall(iw.writers[w], b, Write(iw, iw.writers[w], b))
    /\ UNCHANGED <<readerVars, conc, dg, it, fl>>

\* w.Print(s): fmt.Fprint formats s and hands it to w.Write in one call
DoPrint ==
    /\ pc = "new"
    /\ Len(iw.log) < MaxWrites
    /\ \E w \in 1..Len(iw.writers), b \in Payloads :
          WriteCall(iw.writers[w], b, Write(iw, iw.writers[w], b))
    /\ UNCHANGED <<readerVars, conc, dg, it, fl>>

\* w.Println(s): fmt.Fprintln hands s and a line feed to w.Write in one call
DoPrintln ==
    /\ pc = "new"
    /\ Len(iw.log) < MaxWrites
    /\ \E w \in 1..Len(iw.writers), b \in Payloads :
          WriteCall(iw.writers[w], b \o <<lineFeed>>,
                    Write(iw, iw.writers[w], b \o <<lineFeed>>))
    /\ UNCHANGED <<readerVars, conc, dg, it, fl>>

\* Clients of package intern
StepIntern ==
    \/ DoIntern
    \/ DoInternLong

SpecIntern == Init /\ [][StepIntern]_vars

\* Clients of package intern that also compare the symbols they hold
StepInternOrder ==
    \/ DoIntern
    \/ DoLessThan

SpecInternOrder == Init /\ [][StepInternOrder]_vars

\* Clients of package indentedwriter
StepWriter ==
    \/ DoIndentedWriterOn
    \/ DoIndent
    \/ DoNoIndent
    \/ DoWrite
    \/ DoPrint
    \/ DoPrintln

SpecWriter == Init /\ [][StepWriter]_vars

----------------------------------------------------------------------------
(* A call on the Reader, followed read by read.  The calls above take the   *)
(* reads of one call from a script that ends; here the source answers each  *)
(* read as it likes, a read of no byte and no error included, and the loop  *)
(* of expandTo takes one step for each read.  The Reader is one with a      *)
(* source, made by OnFile.                                                  *)

FillOps == {"ByteAt", "Peek", "Next", "SetOffset"}

\* what a source can answer to one read that returns a byte or an error
ReadOutcomes == {[cap |-> c, eof |-> e] : c \in {0} \cup ShortCaps, e \in BOOLEAN}

\* a read that returns no byte and no error
NoBytes(s) == [n |-> 0, err |-> "nil", s |-> s]

\* mutant: the loop goes on after an error is latched
fillAgain_IgnoresLatch(r, o) == o >= Len(r.content)

\* the test of expandTo's loop
fillAgain(r, o) == o >= Len(r.content) /\ r.err = "nil"

\* the body of expandTo's loop after its read rd
fillOnce(r, s, rd) ==
    IF rd.err # "nil" /\ rd.err # "EOF"
    THEN [r |-> [r EXCEPT !.err = rd.err], s |-> rd.s, panic |-> TRUE]
    ELSE [r |-> [r EXCEPT !.err = rd.err,
                          !.content = @ \o SubSeq(s.data, s.pos + 1, s.pos + rd.n)],
          s |-> rd.s, panic |-> FALSE]

\* expandTo comes to its loop: o is not buffered and there is a source
ComesToLoop(r, o) == o >= Len(r.content) /\ ~(r.ioChunkSize = 0 \/ ~r.source)

\* a call that does not come to the loop, whole
CallOf(op, r, s, o) ==
    IF op = "SetOffset" THEN SetOffset(r, s, o, NoScript)
    ELSE IF op = "Next" THEN Next(r, s, NoScript)
    ELSE ByteAt(r, s, o, NoScript)

\* what the caller of ByteAt does with its result b
Returned(op, b, o) ==
    IF op = "SetOffset" THEN Filled(b, o)
    ELSE IF op = "Next" /\ ~b.panic /\ b.err = "nil"
    THEN [b EXCEPT !.r.offset = @ + 1]
    ELSE b

\* the result of a call as the client sees it; io counts the reads that
\* returned a byte or an error
FillResult(op, o, res, io) ==
    [NoResult EXCEPT !.op = op, !.o = o, !.err = res.err,
                     !.b = IF op = "SetOffset" THEN 0 ELSE res.b,
                     !.off0 = rdr.offset, !.io = io]

\* ByteAt(o), Peek(), Next() or SetOffset(o) is called: up to the loop of
\* expandTo, or to the return of the call when it does not come to it
FillCall ==
    /\ pc = "open"
    /\ fl.pc \in {"idle", "returned"}
    /\ \E op \in FillOps, o \in Offsets :
          /\ op \in {"Peek", "Next"} => o = rdr.offset
          /\ LET Whole(res) ==
                     /\ rdr' = res.r
                     /\ src' = res.s
                     /\ ret' = FillResult(op, o, res, 0)
                     /\ fl' = [NoFill EXCEPT !.pc = "returned", !.op = op,
                                             !.o = o,
                                             !.len0 = Len(rdr.content)]
             IN  IF ComesToLoop(rdr, o)
                 THEN /\ fl' = [NoFill EXCEPT !.pc = "loop", !.op = op,
                                              !.o = o,
                                              !.len0 = Len(rdr.content),
                                              !.looped = TRUE]
                      /\ ret' = NoResult
                      /\ UNCHANGED <<rdr, src>>
                 ELSE Whole(CallOf(op, rdr, src, o))
    /\ UNCHANGED <<pc, closed, added, conc, packages>>

\* one pass of the loop with the read rd
FillPass(rd, got, idle) ==
    LET Passed(p) ==
            /\ rdr' = p.r
            /\ src' = p.s
            /\ pc' = IF p.panic THEN "aborted" ELSE pc
            /\ fl' = [fl EXCEPT !.pc = IF p.panic THEN "panicked" ELSE "loop",
                                !.got = got, !.idle = idle]
            /\ ret' = IF p.panic
                      THEN [NoResult EXCEPT !.op = fl.op, !.o = fl.o,
                                            !.err = rd.err,
                                            !.off0 = rdr.offset,
                                            !.io = got]
                      ELSE ret
    IN  /\ Passed(fillOnce(rdr, src, rd))
        /\ UNCHANGED <<closed, added, conc, packages>>

\* a pass of the loop whose read returns a byte or an error
FillRead ==
    /\ pc = "open"
    /\ fl.pc = "loop"
    /\ fillAgain(rdr, fl.o)
    /\ \E how \in ReadOutcomes :
          FillPass(Read(src, RequestSize(rdr, fl.o), how),
                   Min(fl.got + 1, MaxLen + 2), fl.idle)

\* a pass of the loop whose read returns no byte and no error
FillIdle ==
    /\ pc = "open"
    /\ fl.pc = "loop"
    /\ fillAgain(rdr, fl.o)
    /\ FillPass(NoBytes(src), fl.got, TRUE)

\* the loop is left: updateLines, the return of expandTo and of the call
FillReturn ==
    /\ pc = "open"
    /\ fl.pc = "loop"
    /\ ~fillAgain(rdr, fl.o)
    /\ LET Left(res) ==
               /\ rdr' = res.r
               /\ src' = res.s
               /\ ret' = FillResult(fl.op, fl.o, res, fl.got)
       IN  Left(Returned(fl.op,
                         ByteOf(Expanded([r |-> rdr, s |-> src,
                                          io |-> fl.got,
                                          panic |-> FALSE],
                                         updateLines(rdr), fl.o),
                                fl.o),
                         fl.o))
    /\ fl' = [fl EXCEPT !.pc = "returned"]
    /\ UNCHANGED <<pc, closed, added, conc, packages>>

StepFill ==
    \/ OnFile
    \/ FillCall
    \/ FillRead
    \/ FillIdle
    \/ FillReturn

\* The source answers every read in the end with a byte or an error, and a
\* call that can go on does
SpecFill ==
    Init /\ [][StepFill]_vars /\ WF_vars(FillRead) /\ WF_vars(FillReturn)

----------------------------------------------------------------------------
(* What the claims speak of *)

ByteOps == {"ByteAt", "Peek", "Next"}
ReadOps == ByteOps \cup {"SetOffset"}
RenderOps == {"NameLineAndColumn", "PositionString", "Pos.String", "Pos.Line"}
PosOps == {"Pos.String", "Pos.Line", "RawPos"}

\* seq with byte b put in at offset at
InsertAt(seq, at, b) ==
    SubSeq(seq, 1, at) \o <<b>> \o SubSeq(seq, at + 1, Len(seq))

RECURSIVE Merge(_, _)
Merge(seq, adds) ==
    IF adds = <<>> THEN seq
    ELSE Merge(InsertAt(seq, Head(adds).at, Head(adds).b), Tail(adds))

\* The bytes that have reached the Reader, in the order they arrived: those
\* given at construction or read from the source so far, and those appended.
\* It depends on how many bytes the source has delivered, not on the reads
\* that delivered them.
Arrived ==
    Merge(IF rdr.source THEN SubSeq(src.data, 1, src.pos) ELSE src.data, added)

\* the elements of a set of numbers in increasing order
RECURSIVE Sorted(_)
Sorted(S) ==
    IF S = {} THEN <<>>
    ELSE LET m == CHOOSE x \in S : \A y \in S : x <= y
         IN  <<m>> \o Sorted(S \ {m})

\* 0, and i + 1 for every line feed at offset i of content
LineStartsOf(content) ==
    <<0>> \o Sorted({i \in 1..Len(content) : content[i] = lineFeed})

Buffered == 0..(Len(rdr.content) - 1)

----------------------------------------------------------------------------
(* C1..C10 *)

\* C1: Next() returns the byte at the cursor and moves the cursor on by one
\* exactly when it succeeds; when it fails (or panics) the cursor stays.  On
\* a Reader over bytes B to which nothing was appended, a Next() called at
\* cursor i < len(B) that returns, returns B[i] with no error.
C1_NextAdvances ==
    ret.op = "Next" =>
        /\ (pc = "open" /\ ret.err = "nil") =>
              /\ rdr.offset = ret.off0 + 1
              /\ ret.b = rdr.content[ret.off0 + 1]
        /\ (pc = "aborted" \/ ret.err # "nil") => rdr.offset = ret.off0
        /\ (pc = "open" /\ added = <<>> /\ ret.off0 < Len(src.data)) =>
              /\ ret.err = "nil"
              /\ ret.b = src.data[ret.off0 + 1]

\* the last byte of a file of MaxLen bytes has just been returned by Next()
C1_Witness ==
    /\ pc = "open" /\ ret.op = "Next" /\ ret.err = "nil" /\ rdr.source
    /\ ret.off0 = MaxLen - 1 /\ rdr.offset = MaxLen /\ ret.io > 0

\* C2: a call for an offset at or beyond the end of the input fails with
\* io.EOF: at once and without a read on a Reader with no source, and on a
\* Reader with a source once the source has reported end of file.  A Next()
\* with the cursor behind all bytes of the input fails with io.EOF.
C2_EndOfInput ==
    (ret.op \in ReadOps /\ ret.o >= Len(rdr.content)) =>
        /\ ~rdr.source => (pc = "open" /\ ret.err = "EOF" /\ ret.io = 0)
        /\ (rdr.source /\ rdr.err = "EOF") => (pc = "open" /\ ret.err = "EOF")
        /\ (ret.op = "Next" /\ pc = "open"
              /\ ret.off0 >= Len(src.data) + Len(added)) => ret.err = "EOF"

\* Next() at the end of a file of MaxLen bytes, all read, has failed with EOF
C2_Witness ==
    /\ pc = "open" /\ ret.op = "Next" /\ ret.err = "EOF" /\ rdr.source
    /\ ret.off0 = MaxLen /\ Len(src.data) = MaxLen /\ ret.io = 1

\* C3: whatever the cursor did meanwhile, SetOffset(o) on a buffered offset o
\* succeeds without a read and the Peek() after it returns the byte that
\* arrived at o; a byte a call returns is the byte that arrived at its offset.
C3_State ==
    LET Peeked(so, pk, o, arrived) ==
            /\ ~so.panic /\ so.err = "nil" /\ so.io = 0
            /\ so.r.offset = o
            /\ ~pk.panic /\ pk.err = "nil" /\ pk.b = arrived[o + 1]
            /\ pk.r = so.r
        Moved(so, o, arrived) == Peeked(so, Peek(so.r, so.s, NoScript), o, arrived)
        All(arrived) ==
            /\ \A o \in Buffered :
                  Moved(SetOffset(rdr, src, o, NoScript), o, arrived)
            /\ (ret.op \in ByteOps /\ ret.err = "nil") => ret.b = arrived[ret.o + 1]
    IN  pc = "open" => All(Arrived)

\* the byte that arrived at an offset is the same for ever
C3_Step ==
    LET Kept(old, new) == \A i \in 1..Len(old) : new[i] = old[i]
    IN  (<<rdr.source, src, added>>' # <<rdr.source, src, added>>) =>
            Kept(Arrived, Arrived')

C3_Backtracking == [] C3_State /\ [][C3_Step]_vars

\* a Peek() at offset 0 has succeeded after the end of a file was hit and a
\* byte was appended
C3_Witness ==
    /\ pc = "open" /\ ret.op = "Peek" /\ ret.err = "nil" /\ ret.o = 0
    /\ rdr.source /\ rdr.err = "EOF" /\ added # <<>>
    /\ Len(rdr.content) > MaxLen

\* C4: on a live Reader the line table is 0 followed by i + 1 for every line
\* feed at offset i of the content, in increasing order, and is current up to
\* the end of the content; for a buffered offset o, Line(o) is the number of
\* line starts at or before o (the entry after them is the first beyond o)
\* and Column(o) is o - lineStart(Line(o)) + 1.  In "abc\ndef", offset 0 is
\* line 1 column 1 and offset 4 is line 2 column 1.
C4_LineTable ==
    pc = "open" =>
        /\ rdr.lines = LineStartsOf(rdr.content)
        /\ rdr.updatedTo = Len(rdr.content)
        /\ \A o \in Buffered, adjusted \in BOOLEAN :
              LET n == NameLineAndColumn(rdr, src, o, adjusted, NoScript)
              IN  /\ ~n.panic
                  /\ n.line = Cardinality({i \in 1..Len(rdr.lines) : rdr.lines[i] <= o})
                  /\ \A i \in 1..n.line : rdr.lines[i] <= o
                  /\ n.line < Len(rdr.lines) => rdr.lines[n.line + 1] > o
                  /\ n.col = o - rdr.lines[n.line] + 1
        /\ rdr.content = <<97, 98, 99, lineFeed, 100, 101, 102>> =>
              LET n0 == NameLineAndColumn(rdr, src, 0, FALSE, NoScript)
                  n4 == NameLineAndColumn(rdr, src, 4, FALSE, NoScript)
              IN  /\ n0.line = 1 /\ n0.col = 1
                  /\ n4.line = 2 /\ n4.col = 1

\* a file ending in a line feed was read to its end and a line feed appended
C4_Witness ==
    /\ pc = "open" /\ rdr.source /\ rdr.err = "EOF" /\ added # <<>>
    /\ Len(rdr.lines) = 3 /\ ret.op \in ReadOps

\* C5: while the Reader is open, a buffered byte stays.  In every state,
\* ByteAt(o) on a buffered o returns content[o] without a read, what a call
\* has returned for o is what ByteAt(o) returns, and the line and column of o
\* are those of the line feeds before o in the content; and no step changes
\* a byte of the content or an entry of the line table, both only grow.
C5_Step ==
    (pc = "open" /\ pc' = "open") =>
        LET Kept(old, new) ==
                Len(old) <= Len(new) /\ \A i \in 1..Len(old) : new[i] = old[i]
        IN  Kept(rdr.content, rdr'.content) /\ Kept(rdr.lines, rdr'.lines)

C5_State ==
    LET Same(b, was) == b.err = "nil" /\ b.b = was /\ b.io = 0 /\ ~b.panic
        Placed(n, o, before) ==
            /\ ~n.panic /\ n.io = 0
            /\ n.line = Cardinality(before) + 1
            /\ n.col = o - (IF before = {} THEN 0
                            ELSE CHOOSE i \in before : \A k \in before : k <= i) + 1
    IN  pc = "open" =>
          /\ \A o \in Buffered :
                /\ Same(ByteAt(rdr, src, o, NoScript), rdr.content[o + 1])
                /\ Placed(NameLineAndColumn(rdr, src, o, FALSE, NoScript), o,
                          {i \in 1..o : rdr.content[i] = lineFeed})
          /\ (ret.op \in ByteOps /\ ret.err = "nil") =>
                Same(ByteAt(rdr, src, ret.o, NoScript), ret.b)

C5_NeverEvicted == [] C5_State /\ [][C5_Step]_vars

\* a ByteAt() has returned a byte of a Reader whose content is a file's and
\* an appended byte
C5_Witness ==
    /\ pc = "open" /\ ret.op = "ByteAt" /\ ret.err = "nil" /\ rdr.source
    /\ added # <<>> /\ src.pos > 0

\* C6: the content is the bytes that arrived, whatever the size of the reads
\* that brought them; so are the bytes the calls return and the line table.
\* A short read is no failure and no end of input: a call on a live Reader
\* fails with io.EOF only for an offset still not buffered, and on a Reader
\* with a source only when the source has no byte left.
C6_ShortReads ==
    pc \in {"open", "aborted"} =>
        /\ pc = "open" => rdr.content = Arrived
        /\ pc = "open" => rdr.lines = LineStartsOf(Arrived)
        /\ (ret.op \in ByteOps /\ ret.err = "nil" /\ pc = "open") =>
              ret.b = Arrived[ret.o + 1]
        /\ (ret.op \in ReadOps /\ ret.err = "EOF") =>
              /\ ret.o >= Len(Arrived)
              /\ rdr.source => src.pos = Len(src.data)

\* one ByteAt() took two short reads, of one byte each, to reach its offset
C6_Witness ==
    /\ pc = "open" /\ ret.op = "ByteAt" /\ ret.err = "nil" /\ rdr.source
    /\ ret.io = 2 /\ ret.o = 1 /\ src.pos = 2 /\ added = <<>>

\* C7 (as claimed): a read that fails with an error other than end of file
\* reaches the caller as an error result; the program is not aborted.
C7_IOFailurePropagates == ret.op \in ReadOps => pc # "aborted"

\* C8 (as claimed): OnFile on a block device or an irregular file fails.
C8_InvalidSourceRejected ==
    (ret.op = "OnFile" /\ ret.kind \in {"blockdev", "irregular"}) =>
        /\ pc = "failed"
        /\ ret.err # "nil"

\* ":line:column" for a valid line, nothing otherwise
LinePart(ln, col) == IF ln > 0 THEN ":" \o Itoa(ln) \o ":" \o Itoa(col) ELSE ""

\* " (offset)"
OffsetPart(o) == " (" \o Itoa(o) \o ")"

\* " (offset > bufferedLength)"
BeyondPart(o, buffered) == " (" \o Itoa(o) \o " > " \o Itoa(buffered) \o ")"

\* C9: the string of a position is its name, then ":line:column" exactly when
\* the line is valid, then " (offset)" when the offset is known and not
\* beyond the buffered length; with no valid line and no offset it is the
\* bare name.  Rendering an offset o <= len(content) of a Reader never fails
\* and gives a line and a column; offset 0 of a Reader made by OnString
\* renders as "<string>:1:1 (0)".
C9_PositionFormat ==
    /\ ret.op = "BasicPos" =>
          /\ ret.str = "file" \o LinePart(ret.line, ret.col)
                              \o (IF ret.o >= 0 THEN OffsetPart(ret.o) ELSE "")
          /\ (ret.line <= 0 /\ ret.o < 0) => ret.str = "file"
    /\ (ret.op \in {"PositionString", "Pos.String"} /\ pc = "open") =>
          LET head == rdr.name \o LinePart(ret.line, ret.col)
          IN  IF ret.o <= Len(rdr.content)
              THEN ret.str = head \o OffsetPart(ret.o)
              ELSE ret.str = head \o BeyondPart(ret.o, Len(rdr.content))
    /\ (ret.op \in RenderOps /\ ret.o <= Len(rdr.content)) =>
          /\ pc = "open"
          /\ ret.line >= 1 /\ ret.col >= 1
    /\ (ret.op = "Pos.String" /\ ret.o = 0 /\ rdr.name = "<string>") =>
          ret.str = "<string>:1:1 (0)"

\* the position after "a\n", all consumed, has been rendered
C9_Witness ==
    /\ pc = "open" /\ ret.op = "Pos.String" /\ rdr.content = <<97, lineFeed>>
    /\ ret.o = 2 /\ ret.str = "<string>:2:1 (2)"

\* C10 (as claimed): rendering a Pos beyond all that was ever buffered, on a
\* Reader with no source or with its source at end of file, does not abort;
\* String() gives "name (offset > bufferedLength)".
C10_BeyondBufferedDegrades ==
    (/\ ret.op \in {"Pos.String", "Pos.Line"}
     /\ ret.o > Len(rdr.content)
     /\ ~closed
     /\ ~rdr.source \/ rdr.err = "EOF") =>
        /\ pc = "open"
        /\ ret.op = "Pos.String" =>
              ret.str = rdr.name \o BeyondPart(ret.o, Len(rdr.content))

----------------------------------------------------------------------------
(* C11..C20 *)

\* C11 (as claimed): a call on a Position that returns leaves the Reader as
\* it was: cursor, content, line table, latched error, the bytes consumed
\* from the source, and whether it is closed.
C11_Step ==
    (pc = "open" /\ pc' = "open" /\ ret'.op \in PosOps) =>
        /\ rdr' = rdr
        /\ src' = src
        /\ closed' = closed

C11_PositionLeavesReader == [][C11_Step]_vars

\* C12 (as claimed): on a buffered offset, the name, line and column of
\* p.Raw() are those the Reader gives for the offset with adjusted = false.
C12_RawMatchesReader ==
    LET Same(n) == ret.str = n.nm /\ ret.line = n.line /\ ret.col = n.col
    IN  (pc = "open" /\ ret.op = "RawPos" /\ ret.o < Len(rdr.content)) =>
            Same(NameLineAndColumn(rdr, src, ret.o, FALSE, NoScript))

\* C13 (as claimed): a ByteAt() on a closed Reader returns an error, whatever
\* the Reader was made from and whether or not it had hit the end of a file.
C13_ClosedByteAtFails ==
    (closed /\ ret.op = "ByteAt") => (pc = "open" /\ ret.err # "nil")

\* C14 (as claimed): Close() leaves the name, line and column of every offset
\* that was buffered as they were, for the Reader's calls (adjusted = false)
\* and for a Position's (adjusted = true), and rendering them does not fail.
C14_Step ==
    LET Same(n0, n1) ==
            ~n1.panic /\ n1.nm = n0.nm /\ n1.line = n0.line /\ n1.col = n0.col
    IN  (pc = "open" /\ ~closed /\ closed') =>
            \A o \in Buffered, adjusted \in BOOLEAN :
                Same(NameLineAndColumn(rdr, src, o, adjusted, NoScript),
                     NameLineAndColumn(rdr', src', o, adjusted, NoScript))

C14_ClosePreservesLines == [][C14_Step]_vars

\* C15: AddContent on a live Reader makes the byte it appends visible: right
\* after it, ByteAt at the old length returns that byte without a read, the
\* bytes buffered before are where they were and the line table covers the
\* new byte; a later call on the offset of an appended byte returns it
\* without a read.  A latched end of file makes no difference.
C15_Step ==
    LET Visible(b, was) == ~b.panic /\ b.err = "nil" /\ b.io = 0 /\ b.b = was
    IN  (pc = "open" /\ ret'.op = "AddContent") =>
            /\ Len(added') = Len(added) + 1
            /\ Visible(ByteAt(rdr', src', Len(rdr.content), NoScript),
                       added'[Len(added')].b)
            /\ Len(rdr'.content) = Len(rdr.content) + 1
            /\ SubSeq(rdr'.content, 1, Len(rdr.content)) = rdr.content
            /\ rdr'.lines = LineStartsOf(rdr'.content)
            /\ rdr'.updatedTo = Len(rdr'.content)
            /\ src' = src

C15_State ==
    (pc = "open" /\ ret.op \in ByteOps) =>
        \A i \in 1..Len(added) :
            added[i].at = ret.o =>
                ret.err = "nil" /\ ret.b = added[i].b /\ ret.io = 0

C15_AppendVisible == [] C15_State /\ [][C15_Step]_vars

\* ByteAt() has returned a byte that was appended behind the last byte of a
\* file after the end of the file was latched
C15_Witness ==
    /\ pc = "open" /\ ret.op = "ByteAt" /\ ret.err = "nil"
    /\ rdr.source /\ rdr.err = "EOF" /\ Len(src.data) > 0
    /\ added # <<>> /\ added[1].at = Len(src.data) /\ ret.o = added[1].at

\* C16 (as claimed): an IsAtEOI() that follows a call that failed with io.EOF
\* returns true, and an IsAtEOI() with a buffered byte at the cursor returns
\* false.
C16_Step ==
    (pc = "open" /\ ret'.op = "IsAtEOI") =>
        /\ (ret.op \in ReadOps /\ ret.err = "EOF") => ret'.eoi
        /\ rdr.offset < Len(rdr.content) => ~ret'.eoi

C16_EOIReported == [][C16_Step]_vars

\* C17: what IsAtEOI() returns is whether an error is latched; once an error
\* is latched it stays latched whatever is called; IsAtEOI() reads nothing
\* and leaves the Reader and its source as they are.
C17_Step ==
    /\ IsAtEOI(rdr) => IsAtEOI(rdr')
    /\ ret'.op = "IsAtEOI" => (rdr' = rdr /\ src' = src /\ pc' = pc)

C17_State == ret.op = "IsAtEOI" => ret.eoi = IsAtEOI(rdr)

C19_Step ==
    /\ (pc' = "open" /\ ret'.op = "Peek") => rdr'.offset = rdr.offset
    /\ (pc = "open" /\ ret.op = "Peek" /\ ret'.op = "Peek") =>
          /\ pc' = "open"
          /\ ret'.again
          /\ ret'.b = ret.b /\ ret'.err = ret.err /\ ret'.o = ret.o
          /\ ret.err = "nil" => ret'.io = 0

C19_PeekIdempotent == [][C19_Step]_vars

\* a second Peek() has returned the byte that the first had read from a file
C19_Witness ==
    /\ pc = "open" /\ ret.op = "Peek" /\ ret.again /\ ret.err = "nil"
    /\ rdr.source /\ ret.io = 0 /\ src.pos > 0 /\ ret.o = src.pos - 1

\* the bytes the source has delivered or the constructor was given
Delivered == IF rdr.source THEN src.pos ELSE Len(src.data)

\* C18 (as claimed): with a producer in AddContent and a consumer in ByteAt on
\* one Reader, no byte is lost: whenever both are outside their calls the
\* content holds every byte the source delivered and every byte appended, and
\* the line table is that of the content.
C18_NoByteLost ==
    (pc = "open" /\ conc.ppc = "idle" /\ conc.cpc = "idle") =>
        /\ Len(rdr.content) = Delivered + Len(added)
        /\ rdr.lines = LineStartsOf(rdr.content)

\* C20: of a group made by New, AddError/AddWarn/AddInfo and With, AsError()
\* is not nil exactly when the group holds a diagnostic of kind Error, its
\* own or one taken over from an operand of With; an empty group gives nil.
C20_AsErrorIffError ==
    \A i \in 1..Len(dg.groups) :
        LET HoldsError(g) == \E k \in 1..Len(g.diags) : g.diags[k].Kind = Error
            Right(g) == /\ (AsError(g) # "nil") <=> HoldsError(g)
                        /\ g.diags = <<>> => AsError(g) = "nil"
        IN  Right(dg.groups[i])

\* a group made by With has its only error from the argument of With, and
\* warnings or infos from the receiver
C20_Witness ==
    \E i \in 1..Len(dg.groups) :
        /\ dg.from[i] # <<>>
        /\ AsError(dg.groups[i]) # "nil"
        /\ dg.groups[dg.from[i][1]].diags # <<>>
        /\ ~dg.groups[dg.from[i][1]].HasError
        /\ dg.groups[dg.from[i][2]].HasError

----------------------------------------------------------------------------
(* C21..C30 *)

\* the position a diagnostic was added at, from its Pos string
WhereOf(p) ==
    CHOOSE w \in DiagWheres :
        BasicPosBytes(w.filename, w.line, w.column, w.offset) = p

\* d1 may be listed before d2: smaller line, then smaller column, then the
\* more severe kind, then the smaller message
ListedBefore(d1, d2) ==
    LET ByKind == \/ d1.Kind < d2.Kind
                  \/ d1.Kind = d2.Kind /\ ~StringLess(d2.Message, d1.Message)
        ByWhere(w1, w2) ==
            \/ w1.line < w2.line
            \/ w1.line = w2.line /\ w1.column < w2.column
            \/ w1.line = w2.line /\ w1.column = w2.column /\ ByKind
    IN  ByWhere(WhereOf(d1.Pos), WhereOf(d2.Pos))

\* C21: String() lists the diagnostics of a group by position (in one file,
\* the smaller line first, then the smaller column), at one position by
\* severity (Fatal, Error, Warning, Info) and then by message, whatever the
\* order they were added or merged in.
C21_SortedByPosition ==
    dg.strOf # 0 =>
        LET InOrder(d) ==
                /\ dg.str = JoinLines(d)
                /\ \A i \in 1..Len(d), j \in 1..Len(d) :
                       i < j => ListedBefore(d[i], d[j])
        IN  InOrder(dg.groups[dg.strOf].diags)

\* "<position>: <Kind>: <message>" and a newline, of every diagnostic of d
RECURSIVE KindColonLines(_)
KindColonLines(d) ==
    IF d = <<>> THEN <<>>
    ELSE Head(d).Pos \o <<58, 32>> \o DiagKindString(Head(d).Kind) \o <<58, 32>>
             \o Head(d).Message \o <<lineFeed>> \o KindColonLines(Tail(d))

\* C22: String() of a group of k diagnostics is k lines, each
\* "<position>: <Kind>: <message>" ended by a newline, <Kind> being Fatal,
\* Error, Warning or Info.
C22_OneLinePerDiag ==
    dg.strOf # 0 => dg.str = KindColonLines(dg.groups[dg.strOf].diags)

\* C23: over all Intern/InternString calls made so far, whatever goroutine
\* made them, two calls gave the same symbol exactly when their arguments
\* were bytewise equal (single-byte and empty arguments included), and
\* Bytes() of the symbol of every earlier call is still the argument of that
\* call.
C23_UniqueSymbols ==
    \A p \in it.seen :
        /\ SymbolBytes(it, p.sym) = p.b
        /\ \A q \in it.seen : (p.sym = q.sym) <=> (p.b = q.b)

\* byteBuf has been replaced by a fresh array: the table holds a symbol
\* copied into the first array and one copied into the present one, and a
\* single-byte symbol has been given out
C23_Witness ==
    /\ it.cur # 1
    /\ \E s \in DOMAIN it.index : it.index[s].buf = 1
    /\ \E s \in DOMAIN it.index : it.index[s].buf = it.cur /\ it.index[s].len > 0
    /\ \E p \in it.seen : Len(p.b) = 1

\* bytewise lexicographic order of byte strings
BytesLess(a, b) ==
    \E i \in 1..(Min(Len(a), Len(b)) + 1) :
        /\ \A k \in 1..(i - 1) : a[k] = b[k]
        /\ IF i <= Len(a) /\ i <= Len(b) THEN a[i] < b[i] ELSE Len(a) < Len(b)

\* C24: s.LessThan(s2) of two interned symbols is true exactly when the
\* bytes of s are less than the bytes of s2 in bytewise lexicographic order,
\* single-byte symbols included.
C24_LessThanIsBytewise ==
    it.lt # <<>> =>
        (it.lt[3] <=> BytesLess(SymbolBytes(it, it.lt[1]),
                                SymbolBytes(it, it.lt[2])))

\* b behind o, every byte that starts a line of the output prefaced with
\* indent spaces
RECURSIVE Prefaced(_, _, _)
Prefaced(o, indent, b) ==
    IF b = <<>> THEN o
    ELSE Prefaced(IF o = <<>> \/ o[Len(o)] = lineFeed
                  THEN o \o Repeat(indent) \o <<Head(b)>>
                  ELSE o \o <<Head(b)>>,
                  indent, Tail(b))

\* the output the calls of the log should have given
RECURSIVE Indented(_)
Indented(log) ==
    IF log = <<>> THEN <<>>
    ELSE Prefaced(Indented(SubSeq(log, 1, Len(log) - 1)),
                  log[Len(log)].indent, log[Len(log)].b)

\* C25: while the underlying writer takes all it is given, the output is the
\* bytes of the Write/Print/Println calls in turn, every line (the first one
\* too) begun with as many spaces as the indent of the writer that wrote its
\* first byte, and no space put anywhere else.
C25_EveryLineIndented ==
    ~iw.failed => iw.out = Indented(iw.log)

\* C26: when the one read of a ByteAt, Peek or Next returns bytes together
\* with an error, io.EOF or another, the bytes are appended to the content and
\* indexed, and the call succeeds when the content then covers its offset;
\* only otherwise does it return the error now latched.
C26_Step ==
    (/\ pc = "open" /\ ret'.op \in ByteOps /\ ret'.io = 1
     /\ src'.pos > src.pos /\ rdr.err = "nil" /\ rdr'.err # "nil") =>
        /\ pc' = "open"
        /\ rdr'.content = rdr.content \o SubSeq(src.data, src.pos + 1, src'.pos)
        /\ rdr'.lines = LineStartsOf(rdr'.content)
        /\ ret'.err = IF ret'.o < Len(rdr'.content) THEN "nil" ELSE rdr'.err

C26_DataBeforeError == [][C26_Step]_vars

\* C27: a call reads from the source only for an offset that is not buffered
\* and only while no end of input and no error is latched: a ByteAt, Peek,
\* Next or SetOffset of a buffered offset reads nothing, and no step of any
\* kind reads once something is latched.
C27_Step ==
    (pc = "open" /\ (ret'.io > 0 \/ src' # src)) =>
        /\ ret'.op \in ReadOps
        /\ ret'.o >= Len(rdr.content)
        /\ rdr.err = "nil"

C27_ReadsOnlyWhenNeeded == [][C27_Step]_vars

\* a call for an offset that is not buffered, on a Reader with a source whose
\* end of input was latched by an earlier call: it read nothing
C27_Witness ==
    /\ pc = "open" /\ rdr.source /\ rdr.err = "EOF"
    /\ ret.op \in ReadOps /\ ret.o >= Len(rdr.content) /\ ret.io = 0

\* C28: the first read of a Reader that OnFile has just opened asks for the
\* bytes still needed, rounded up to a multiple of the chunk size, the chunk
\* size being 1 for a character device and 1024 for a regular file: a
\* character device is asked for no more than is needed, a regular file for
\* a positive multiple of 1024 bytes.
C28_Step ==
    (pc = "open" /\ ret.op = "OnFile" /\ ret'.io > 0) =>
        LET Asked(need, n) ==
                /\ ret.kind = "chardev" =>
                       rdr.ioChunkSize = ttyChunkSize /\ n = need
                /\ ret.kind = "regular" =>
                       /\ rdr.ioChunkSize = blockChunkSize
                       /\ n > 0 /\ n % blockChunkSize = 0 /\ n >= need
        IN  Asked((ret'.o - Len(rdr.content)) + 1, RequestSize(rdr, ret'.o))

C28_ChunkedRequests == [][C28_Step]_vars

\* C29: SetOffset(o) ends as ByteAt(o) does from the same state: with no
\* error, the cursor then being o and o being buffered, or with the error of
\* ByteAt(o) and the cursor where it was.  With Next this keeps the cursor of
\* an unclosed Reader between 0 and len(content).
C29_State ==
    pc \in {"open", "aborted"} => (0 <= rdr.offset /\ rdr.offset <= Len(rdr.content))

C29_Step ==
    (pc = "open" /\ ret'.op = "SetOffset") =>
        LET AsByteAt(b) ==
                /\ b.panic = (pc' = "aborted")
                /\ b.err = ret'.err /\ b.s = src'
                /\ b.r.content = rdr'.content /\ b.r.err = rdr'.err
            Ended(o) ==
                /\ \E script \in ScriptsFor(rdr, o) :
                       AsByteAt(ByteAt(rdr, src, o, script))
                /\ (pc' = "open" /\ ret'.err = "nil") =>
                       rdr'.offset = o /\ o < Len(rdr'.content)
                /\ (pc' = "aborted" \/ ret'.err # "nil") =>
                       rdr'.offset = rdr.offset
        IN  Ended(ret'.o)

C29_CursorInBounds == [] C29_State /\ [][C29_Step]_vars

\* the cursor stands behind the last buffered byte, Next having consumed it,
\* and a SetOffset past the end of the input has failed and left it there
C29_Witness ==
    /\ pc = "open" /\ ret.op = "SetOffset" /\ ret.err = "EOF"
    /\ ret.o > rdr.offset
    /\ rdr.offset > 0 /\ rdr.offset = Len(rdr.content)

\* C30: the cursor a Reader reports can be set again: SetOffset(r.Offset())
\* succeeds and leaves the cursor where it is, also when the cursor stands at
\* the end of the input behind the last byte.
C30_Step ==
    (pc = "open" /\ pc' = "open" /\ ret'.op = "SetOffset" /\ ret'.o = rdr.offset) =>
        (ret'.err = "nil" /\ rdr'.offset = rdr.offset)

C30_OffsetRestorable == [][C30_Step]_vars

----------------------------------------------------------------------------
(* C31..C32 *)

\* a call that came to the loop has returned
FillReturned == fl.pc = "returned" /\ fl.looped

\* C31, at every state: a call issues no more reads that return a byte or an
\* error than it had bytes missing (the last of them may bring the error),
\* and when it has returned it has returned the byte asked for, or the
\* error that is latched with the offset still not buffered.
C31_State ==
    /\ fl.got <= (fl.o + 1) - fl.len0 \/ ~fl.looped
    /\ FillReturned =>
          /\ ret.io = fl.got
          /\ \/ /\ ret.err = "nil"
                /\ fl.o < Len(rdr.content)
                /\ fl.op # "SetOffset" => ret.b = src.data[fl.o + 1]
             \/ /\ ret.err # "nil"
                /\ ret.err = rdr.err
                /\ fl.o >= Len(rdr.content)

\* C31: Fill terminates.  When every read of the source returns in the end
\* a byte or the end of the file, a ByteAt, Peek, Next or SetOffset call
\* that has come to the loop of expandTo returns after finitely many reads,
\* with the byte or with the latched error; the loop does not go on for
\* ever.  (A read error other than the end of the file ends the loop too,
\* with a panic.)
C31_FillTerminates ==
    /\ []C31_State
    /\ (fl.pc = "loop") ~> (FillReturned \/ rdr.err \notin {"nil", "EOF"})

\* a call has returned a byte after a read that returned nothing and two
\* reads that returned a byte each
C31_Witness ==
    /\ FillReturned
    /\ fl.idle
    /\ fl.got >= 2
    /\ ret.err = "nil"

\* the bytes handed to the last Write
LastPayload == iw.log[Len(iw.log)].b

\* C32: Write honours the io.Writer contract on failure.  When a write to
\* the underlying writer fails, Write returns a non-nil error with the count
\* of the payload bytes written so far; it returns a nil error only when all
\* len(b) bytes of the payload were written.  (A write of the underlying
\* writer that fails takes fewer bytes than it was given, so the writes of a
\* call have all succeeded exactly when the count is len(b).)
C32_WriteReportsFailure ==
    iw.log # <<>> =>
        /\ iw.n < Len(LastPayload) => iw.err # "nil"
        /\ iw.err = "nil" => iw.n = Len(LastPayload)

====
